---- MODULE Spec2Model ----
(***************************************************************************)
(* Model of src/app.py, a Streamlit script that merges CSV/Excel files.    *)
(*                                                                         *)
(* A Streamlit script is re-executed from its first to its last line on    *)
(* every user interaction; st.session_state survives between executions,   *)
(* locals do not.  One execution is modelled as three consecutive steps    *)
(* (IngestSection, MergeSection, ResetSection) selected by pc, so that the *)
(* state between the sections of the script is observable.  st.rerun()     *)
(* abandons the current execution and starts a new one with the same       *)
(* widget values and no button pressed.                                    *)
(***************************************************************************)
EXTENDS Integers, Sequences, FiniteSets, TLC

VARIABLES
    uploaded_files_data,  \* st.session_state.uploaded_files_data: ordered dict name -> df
    column_groups,        \* st.session_state.column_groups: ordered dict signature -> [names]
    selected_group,       \* st.session_state.selected_group: <<>> is None, else <<signature>>
    files_to_delete,      \* st.session_state.files_to_delete
    merge_ready,          \* st.session_state.merge_ready
    uploaded_files,       \* value of the st.file_uploader widget: sequence of file ids
    radio,                \* index of the option held by the st.radio widget
    radio_options,        \* options of the st.radio rendered by the last execution
    clicked,              \* the button whose click started this execution
    errors,               \* local `errors` of this execution (shown with st.warning)
    kept_files,           \* local `kept_files` of this execution
    excluded_files,       \* local `excluded_files` of this execution
    merged_df,            \* local `merged_df` of this execution: <<>> or <<table>>
    confirm_shown,        \* the confirm button was rendered by the last execution
    reset_shown,          \* the reset button was rendered by the last execution
    pc,                   \* position of the script: idle, ingest, merge, reset, rerun
    last_action,          \* the user interaction that started the current chain of executions
    reran                 \* the current execution was started by st.rerun()

vars == <<uploaded_files_data, column_groups, selected_group, files_to_delete,
          merge_ready, uploaded_files, radio, radio_options, clicked, errors,
          kept_files, excluded_files, merged_df, confirm_shown, reset_shown,
          pc, last_action, reran>>

session == <<uploaded_files_data, column_groups, selected_group, files_to_delete,
             merge_ready>>

-----------------------------------------------------------------------------
(* Bounds and the files a user may upload.                                 *)

MaxUpload == 3

\* Cell value pandas puts where a table has no such column.
NaN == "NaN"

\* The column names that occur, in the order Python's sorted() gives strings.
ColOrder == <<"id", "name", "value">>

\* A file is its name (stem and the text after the last dot) and its content:
\* whether the pandas reader accepts it and, if so, the table it parses to.
\* Rows are sequences of cells, positionally aligned with `columns`.
Files ==
    << [name |-> [stem |-> "a", ext |-> "csv"], parses |-> TRUE,
        columns |-> <<"id", "name">>, rows |-> << <<"1", "x">>, <<"2", "y">> >>],
       [name |-> [stem |-> "b", ext |-> "csv"], parses |-> TRUE,
        columns |-> <<"name", "id">>, rows |-> << <<"x", "1">>, <<"z", "3">> >>],
       [name |-> [stem |-> "c", ext |-> "csv"], parses |-> TRUE,
        columns |-> <<"id", "value">>, rows |-> << <<"1", "v">> >>],
       [name |-> [stem |-> "a", ext |-> "csv"], parses |-> TRUE,
        columns |-> <<"id", "value">>, rows |-> << <<"4", "w">> >>],
       [name |-> [stem |-> "d", ext |-> "xlsx"], parses |-> FALSE,
        columns |-> <<>>, rows |-> <<>>],
       [name |-> [stem |-> "e", ext |-> "xls"], parses |-> TRUE,
        columns |-> <<"value", "name">>, rows |-> << <<"v", "x">> >>],
       [name |-> [stem |-> "f", ext |-> "CSV"], parses |-> TRUE,
        columns |-> <<"id", "name">>, rows |-> << <<"9", "q">> >>] >>

FileIds == 1..Len(Files)

RECURSIVE SeqsUpTo(_)
\* The sequences of distinct file ids of length at most n.
SeqsUpTo(n) ==
    IF n = 0 THEN {<<>>}
    ELSE LET shorter == SeqsUpTo(n - 1)
         IN  shorter \cup
             {Append(s, f) : s \in {t \in shorter : Len(t) = n - 1},
                             f \in FileIds}

Range(s) == {s[i] : i \in DOMAIN s}

\* What the file_uploader widget can hold.
Uploads == {s \in SeqsUpTo(MaxUpload) : Cardinality(Range(s)) = Len(s)}

NameStr(f) == Files[f].name

-----------------------------------------------------------------------------
(* Python dict (insertion ordered) as a sequence of [key, val] entries.    *)

DictKeys(d) == [i \in DOMAIN d |-> d[i].key]

DictHas(d, k) == \E i \in DOMAIN d : d[i].key = k

DictGet(d, k) == d[CHOOSE i \in DOMAIN d : d[i].key = k].val

\* d[k] = v: an existing key keeps its position, a new key goes last.
DictSet(d, k, v) ==
    IF DictHas(d, k)
    THEN [i \in DOMAIN d |-> IF d[i].key = k THEN [key |-> k, val |-> v] ELSE d[i]]
    ELSE Append(d, [key |-> k, val |-> v])

\* del d[k]
DictDel(d, k) == SelectSeq(d, LAMBDA e : e.key # k)

-----------------------------------------------------------------------------
(* The functions of app.py.                                                *)

\* pd.read_csv / pd.read_excel: the table of the file, or an exception.
\* The DataFrame remembers the upload it was read from (object identity).
pd_read(f) ==
    IF Files[f].parses
    THEN [raised |-> FALSE,
          df |-> [src |-> f, columns |-> Files[f].columns, rows |-> Files[f].rows]]
    ELSE [raised |-> TRUE, df |-> <<>>]

\* read_file: (df, None) or (None, message); <<>> is None.
read_file(f) ==
    IF NameStr(f).ext = "csv" \/ NameStr(f).ext \in {"xlsx", "xls"}
    THEN LET r == pd_read(f)
         IN  IF r.raised
             THEN [df |-> <<>>,
                   error |-> <<[kind |-> "Error reading", name |-> NameStr(f)]>>]
             ELSE [df |-> <<r.df>>, error |-> <<>>]
    ELSE [df |-> <<>>,
          error |-> <<[kind |-> "Unsupported file format", name |-> NameStr(f)]>>]

Rank(c) == CHOOSE i \in DOMAIN ColOrder : ColOrder[i] = c

RECURSIVE Insert(_, _)
\* c put into the sorted sequence s, before the first larger element.
Insert(s, c) ==
    IF s = <<>> THEN <<c>>
    ELSE IF Rank(c) < Rank(Head(s)) THEN <<c>> \o s
    ELSE <<Head(s)>> \o Insert(Tail(s), c)

RECURSIVE sorted(_)
sorted(s) == IF s = <<>> THEN <<>> ELSE Insert(sorted(Tail(s)), Head(s))

\* Variant: the signature keeps the order of the columns.
get_column_signature_unsorted(columns) == columns

get_column_signature(columns) == sorted(columns)

RECURSIVE group_loop(_, _)
\* The loop of group_files_by_columns over files_data.items(), `groups` so far.
group_loop(items, groups) ==
    IF items = <<>> THEN groups
    ELSE LET signature == get_column_signature(Head(items).val.columns)
             old == IF DictHas(groups, signature) THEN DictGet(groups, signature)
                    ELSE <<>>
         IN  group_loop(Tail(items),
                        DictSet(groups, signature, Append(old, Head(items).key)))

group_files_by_columns(files_data) == group_loop(files_data, <<>>)

RECURSIVE ingest_loop_failfast(_, _, _)
\* Variant: the loop stops at the first file that cannot be read.
ingest_loop_failfast(files, data, errs) ==
    IF files = <<>> THEN [data |-> data, errors |-> errs]
    ELSE LET r == read_file(Head(files))
         IN  IF r.error # <<>>
             THEN [data |-> data, errors |-> errs \o r.error]
             ELSE ingest_loop_failfast(Tail(files),
                              DictSet(data, NameStr(Head(files)), r.df[1]), errs)

RECURSIVE ingest_loop(_, _, _)
\* The loop over uploaded_files (lines 80-87) with uploaded_files_data and
\* errors so far: a failed read appends its error, a good one stores its df.
ingest_loop(files, data, errs) ==
    IF files = <<>> THEN [data |-> data, errors |-> errs]
    ELSE LET r == read_file(Head(files))
         IN  IF r.error # <<>>
             THEN ingest_loop(Tail(files), data, errs \o r.error)
             ELSE ingest_loop(Tail(files),
                              DictSet(data, NameStr(Head(files)), r.df[1]), errs)

\* Variant: any grouping counts as a single structure.
single_group_any(column_groups_) == Len(column_groups_) >= 1

\* num_groups == 1 (line 108)
single_group(column_groups_) == Len(column_groups_) = 1

\* Variant: merge_ready is left as it was when several structures are found.
merge_ready_multi_stale == merge_ready

\* Line 122: merge_ready when several column structures are found.
merge_ready_multi == FALSE

\* group_options: option i of the radio is "Group i (n file(s))" and stands
\* for the i-th signature of column_groups (lines 128-132).
group_option_names(column_groups_) ==
    [i \in DOMAIN column_groups_ |->
        [idx |-> i, nfiles |-> Len(column_groups_[i].val)]]

\* The option st.radio returns: the one the widget holds when the widget of the
\* previous execution had the same options, else the first one (a widget that
\* an execution does not render loses its value: radio = 1, radio_options = <<>>).
radio_value(options) ==
    IF options = radio_options /\ radio \in DOMAIN options THEN radio ELSE 1

RECURSIVE excluded_loop_first(_, _, _)
\* Variant: the loop stops after the first group that is not the selected one.
excluded_loop_first(items, selected_signature, acc) ==
    IF items = <<>> THEN acc
    ELSE IF Head(items).key # selected_signature
         THEN acc \o Head(items).val
         ELSE excluded_loop_first(Tail(items), selected_signature, acc)

RECURSIVE excluded_loop(_, _, _)
\* Lines 160-164: the files of every group but the selected one.
excluded_loop(items, selected_signature, acc) ==
    IF items = <<>> THEN acc
    ELSE excluded_loop(Tail(items), selected_signature,
                       IF Head(items).key # selected_signature
                       THEN acc \o Head(items).val ELSE acc)

\* Variant: only the first excluded file is deleted.
confirm_delete_first(data, excluded) ==
    IF excluded = <<>> THEN data ELSE DictDel(data, Head(excluded))

RECURSIVE confirm_delete(_, _)
\* Lines 182-184: del uploaded_files_data[f] for every excluded f present.
confirm_delete(data, excluded) ==
    IF excluded = <<>> THEN data
    ELSE confirm_delete(IF DictHas(data, Head(excluded))
                        THEN DictDel(data, Head(excluded)) ELSE data,
                        Tail(excluded))

\* Variant: the excluded files are deleted as soon as a group is selected.
data_after_selection_eager(data, excluded) == confirm_delete(data, excluded)

\* Lines 180-184: the working set the selection block leaves: the excluded
\* files are deleted only in the execution in which confirm was pressed.
data_after_selection(data, excluded) ==
    IF clicked = "confirm" THEN confirm_delete(data, excluded) ELSE data

-----------------------------------------------------------------------------
(* pd.concat(all_dfs, ignore_index=True)                                   *)

RECURSIVE union_columns(_, _)
\* The columns of the result: every column of every frame, in order of first
\* appearance.
union_columns(dfs, acc) ==
    IF dfs = <<>> THEN acc
    ELSE union_columns(Tail(dfs),
            acc \o SelectSeq(Head(dfs).columns,
                             LAMBDA c : \A i \in DOMAIN acc : acc[i] # c))

ColIndex(columns, c) == CHOOSE i \in DOMAIN columns : columns[i] = c

\* A row of df laid out on `columns`: cells are matched by column name.
reindex(df, row, columns) ==
    [i \in DOMAIN columns |->
        IF \E j \in DOMAIN df.columns : df.columns[j] = columns[i]
        THEN row[ColIndex(df.columns, columns[i])]
        ELSE NaN]

RECURSIVE concat_rows(_, _)
concat_rows(dfs, columns) ==
    IF dfs = <<>> THEN <<>>
    ELSE [i \in DOMAIN Head(dfs).rows |-> reindex(Head(dfs), Head(dfs).rows[i], columns)]
         \o concat_rows(Tail(dfs), columns)

RECURSIVE drop_duplicates(_)
drop_duplicates(rows) ==
    IF rows = <<>> THEN <<>>
    ELSE LET front == [i \in 1..(Len(rows) - 1) |-> rows[i]]
             last == rows[Len(rows)]
         IN  IF \E i \in DOMAIN front : front[i] = last
             THEN drop_duplicates(front)
             ELSE Append(drop_duplicates(front), last)

\* Variant: equal rows are merged into one.
pd_concat_dedup(dfs) ==
    LET columns == union_columns(dfs, <<>>)
    IN  [columns |-> columns, rows |-> drop_duplicates(concat_rows(dfs, columns))]

pd_concat(dfs) ==
    LET columns == union_columns(dfs, <<>>)
    IN  [columns |-> columns, rows |-> concat_rows(dfs, columns)]

DictValues(d) == [i \in DOMAIN d |-> d[i].val]

-----------------------------------------------------------------------------
(* State after construction: the first execution of the script, with an    *)
(* empty uploader, has initialised st.session_state (lines 12-21) and has  *)
(* rendered nothing else.                                                  *)

Init ==
    /\ uploaded_files_data = <<>>
    /\ column_groups = <<>>
    /\ selected_group = <<>>
    /\ files_to_delete = {}
    /\ merge_ready = FALSE
    /\ uploaded_files = <<>>
    /\ radio = 1
    /\ radio_options = <<>>
    /\ clicked = "none"
    /\ errors = <<>>
    /\ kept_files = <<>>
    /\ excluded_files = <<>>
    /\ merged_df = <<>>
    /\ confirm_shown = FALSE
    /\ reset_shown = FALSE
    /\ pc = "idle"
    /\ last_action = "init"
    /\ reran = FALSE

\* A new execution of the script starts: locals of the previous one are gone.
StartRun(button, action, isRerun) ==
    /\ pc' = "ingest"
    /\ clicked' = button
    /\ last_action' = action
    /\ reran' = isRerun
    /\ errors' = <<>>
    /\ kept_files' = <<>>
    /\ excluded_files' = <<>>
    /\ merged_df' = <<>>
    /\ UNCHANGED <<session, radio_options, confirm_shown, reset_shown>>

-----------------------------------------------------------------------------
(* User interactions, each of which makes Streamlit execute the script.    *)

\* The user picks more files in the uploader's dialog: they are appended.
AddFiles(files) ==
    /\ pc = "idle"
    /\ files # <<>>
    /\ uploaded_files \o files \in Uploads
    /\ uploaded_files' = uploaded_files \o files
    /\ UNCHANGED radio
    /\ StartRun("none", "upload", FALSE)

\* The user removes the i-th file from the uploader.
RemoveFile(i) ==
    /\ pc = "idle"
    /\ i \in DOMAIN uploaded_files
    /\ uploaded_files' = [j \in 1..(Len(uploaded_files) - 1) |->
                             IF j < i THEN uploaded_files[j] ELSE uploaded_files[j + 1]]
    /\ UNCHANGED radio
    /\ StartRun("none", "upload", FALSE)

\* The user picks option i of the radio shown by the last execution.
SelectRadio(i) ==
    /\ pc = "idle"
    /\ i \in DOMAIN radio_options
    /\ i # radio
    /\ radio' = i
    /\ UNCHANGED uploaded_files
    /\ StartRun("none", "select", FALSE)

\* The user presses "Confirm Selection & Proceed to Merge".
ClickConfirm ==
    /\ pc = "idle"
    /\ confirm_shown
    /\ UNCHANGED <<uploaded_files, radio>>
    /\ StartRun("confirm", "confirm", FALSE)

\* The user presses "Reset & Start Over".
ClickReset ==
    /\ pc = "idle"
    /\ reset_shown
    /\ UNCHANGED <<uploaded_files, radio>>
    /\ StartRun("reset", "reset", FALSE)

\* st.rerun(): the script runs again, same widget values, no button pressed.
Rerun ==
    /\ pc = "rerun"
    /\ UNCHANGED <<uploaded_files, radio>>
    /\ StartRun("none", last_action, TRUE)

-----------------------------------------------------------------------------
(* The sections of the script.                                             *)

\* Lines 74-187: read the uploads, group them, offer the selection, confirm.
IngestSection ==
    /\ pc = "ingest"
    /\ UNCHANGED <<files_to_delete, uploaded_files, clicked, merged_df,
                   reset_shown, last_action, reran>>
    /\ IF uploaded_files = <<>>
       THEN /\ UNCHANGED <<uploaded_files_data, column_groups, selected_group,
                           merge_ready, errors, kept_files, excluded_files>>
            /\ radio' = 1
            /\ radio_options' = <<>>
            /\ confirm_shown' = FALSE
            /\ pc' = "merge"
       ELSE LET read == ingest_loop(uploaded_files, <<>>, <<>>)
            IN  /\ errors' = read.errors
                /\ IF read.data = <<>>
                   THEN /\ uploaded_files_data' = <<>>
                        /\ UNCHANGED <<column_groups, selected_group, merge_ready,
                                       kept_files, excluded_files>>
                        /\ radio' = 1
                        /\ radio_options' = <<>>
                        /\ confirm_shown' = FALSE
                        /\ pc' = "merge"
                   ELSE LET groups == group_files_by_columns(read.data)
                        IN  /\ column_groups' = groups
                            /\ IF single_group(groups)
                               THEN /\ merge_ready' = TRUE
                                    /\ selected_group' = <<groups[1].key>>
                                    /\ uploaded_files_data' = read.data
                                    /\ UNCHANGED <<kept_files, excluded_files>>
                                    /\ radio' = 1
                                    /\ radio_options' = <<>>
                                    /\ confirm_shown' = FALSE
                                    /\ pc' = "merge"
                               ELSE LET options == group_option_names(groups)
                                        choice == radio_value(options)
                                        selected_signature == groups[choice].key
                                        kept == DictGet(groups, selected_signature)
                                        excluded == excluded_loop(groups, selected_signature, <<>>)
                                    IN  /\ radio_options' = options
                                        /\ radio' = choice
                                        /\ selected_group' = <<selected_signature>>
                                        /\ kept_files' = kept
                                        /\ excluded_files' = excluded
                                        /\ confirm_shown' = TRUE
                                        /\ uploaded_files_data' =
                                               data_after_selection(read.data, excluded)
                                        /\ IF clicked = "confirm"
                                           THEN /\ merge_ready' = TRUE
                                                /\ pc' = "rerun"
                                           ELSE /\ merge_ready' = merge_ready_multi
                                                /\ pc' = "merge"

\* Variant: the merge section does not look at merge_ready.
merge_guard_nonempty == uploaded_files_data # <<>>

\* Variant: the merge section does not look at the working set.
merge_guard_ready == merge_ready

\* Line 190: the condition under which the merge section runs.
merge_guard == merge_ready /\ uploaded_files_data # <<>>

\* Lines 189-250: concatenate the working set and show the result.
MergeSection ==
    /\ pc = "merge"
    /\ merged_df' = IF merge_guard
                    THEN <<pd_concat(DictValues(uploaded_files_data))>>
                    ELSE <<>>
    /\ pc' = "reset"
    /\ UNCHANGED <<session, uploaded_files, radio, radio_options, clicked, errors,
                   kept_files, excluded_files, confirm_shown, reset_shown,
                   last_action, reran>>

\* Lines 252-261: the reset button, rendered only over a non-empty working set.
ResetSection ==
    /\ pc = "reset"
    /\ reset_shown' = (uploaded_files_data # <<>>)
    /\ IF uploaded_files_data # <<>> /\ clicked = "reset"
       THEN /\ uploaded_files_data' = <<>>
            /\ column_groups' = <<>>
            /\ selected_group' = <<>>
            /\ files_to_delete' = {}
            /\ merge_ready' = FALSE
            /\ pc' = "rerun"
       ELSE /\ UNCHANGED session
            /\ pc' = "idle"
    /\ UNCHANGED <<uploaded_files, radio, radio_options, clicked, errors, kept_files,
                   excluded_files, merged_df, confirm_shown, last_action, reran>>

Next ==
    \/ \E files \in Uploads : AddFiles(files)
    \/ \E i \in 1..MaxUpload : RemoveFile(i)
    \/ \E i \in 1..MaxUpload : SelectRadio(i)
    \/ ClickConfirm
    \/ ClickReset
    \/ Rerun
    \/ IngestSection
    \/ MergeSection
    \/ ResetSection

Spec == Init /\ [][Next]_vars

-----------------------------------------------------------------------------
(* Vocabulary of the properties.                                           *)

\* The names in the working set, and the tables in it.
WorkingNames == Range(DictKeys(uploaded_files_data))
WorkingTables == Range(DictValues(uploaded_files_data))

\* The file list of the group with signature sig, as a set.
GroupFiles(sig) == Range(DictGet(column_groups, sig))

\* The ingest block ran in this execution and stored a grouping; no confirm.
AfterGrouping ==
    pc = "merge" /\ uploaded_files # <<>> /\ uploaded_files_data # <<>>

\* The confirm block (lines 180-187) has just run, over two or more groups.
AfterConfirm == pc = "rerun" /\ clicked = "confirm" /\ Len(column_groups) > 1

\* A file whose read fails: unsupported extension, or the reader raises.
Fails(f) == NameStr(f).ext \notin {"csv", "xlsx", "xls"} \/ ~Files[f].parses

\* The upload whose table uploaded_files_data holds under name n after an
\* ingest of `files`: the last readable one of that name.
LastNamed(files, n) ==
    LET idx == {i \in DOMAIN files : NameStr(files[i]) = n /\ ~Fails(files[i])}
    IN  files[CHOOSE i \in idx : \A j \in idx : j <= i]

\* The session as the first execution leaves it: EMPTY.
EmptySession ==
    /\ uploaded_files_data = <<>>
    /\ column_groups = <<>>
    /\ selected_group = <<>>
    /\ merge_ready = FALSE

C2_MergeAfterConfirm ==
    (pc = "reset" /\ last_action = "confirm" /\ reran /\ selected_group # <<>>) =>
        /\ merge_ready
        /\ merged_df # <<>>
        /\ WorkingNames = GroupFiles(selected_group[1])

\* C3: once the execution that reset's st.rerun() starts has finished, the
\* session is EMPTY and nothing is shown as merged.
C3_ResetReturnsToEmpty ==
    (pc = "idle" /\ last_action = "reset" /\ reran) =>
        EmptySession /\ merged_df = <<>>

\* The column-name set of the table stored under name n.
ColumnSet(n) == Range(DictGet(uploaded_files_data, n).columns)

\* C4: the grouping stored by an ingest has one group per distinct column-name
\* set of the working set, and its groups partition the working set: each is
\* non-empty and lists no name twice, they are pairwise disjoint, their union
\* is the working set, and two tables are in the same group exactly when their
\* column-name sets are equal (column order ignored).
C4_GroupsPartitionBySignature ==
    AfterGrouping =>
        /\ Len(column_groups) = Cardinality({ColumnSet(n) : n \in WorkingNames})
        /\ \A i \in DOMAIN column_groups :
              /\ column_groups[i].val # <<>>
              /\ Cardinality(Range(column_groups[i].val)) = Len(column_groups[i].val)
              /\ \A n \in Range(column_groups[i].val) :
                    n \in WorkingNames /\ ColumnSet(n) = Range(column_groups[i].key)
        /\ \A i, j \in DOMAIN column_groups :
              i # j => Range(column_groups[i].val) \cap Range(column_groups[j].val) = {}
        /\ UNION {Range(column_groups[i].val) : i \in DOMAIN column_groups} = WorkingNames
        /\ \A n, m \in WorkingNames :
              ColumnSet(n) = ColumnSet(m) <=>
                  \E i \in DOMAIN column_groups :
                      {n, m} \subseteq Range(column_groups[i].val)

\* C4 witness: two groups, one of them holding two tables whose columns are
\* the same names in different orders.
C4_Witness ==
    /\ AfterGrouping
    /\ Len(column_groups) = 2
    /\ \E i \in DOMAIN column_groups :
          \E n, m \in Range(column_groups[i].val) :
              /\ n # m
              /\ DictGet(uploaded_files_data, n).columns
                     # DictGet(uploaded_files_data, m).columns

\* C5: after an ingest that produced one group, merge_ready is true and that
\* group's signature is selected; after one that produced several, merge_ready
\* is false; and a merge over several groups is never shown unless the click
\* that started the execution was a confirm.
C5_AutoReadyOnlyForSingleGroup ==
    /\ AfterGrouping =>
          /\ Len(column_groups) = 1 =>
                merge_ready /\ selected_group = <<column_groups[1].key>>
          /\ Len(column_groups) > 1 => ~merge_ready
    /\ (merged_df # <<>> /\ Len(column_groups) > 1) => last_action = "confirm"

\* C5 witness: the merge section was passed over for a two-group upload.
C5_Witness ==
    /\ pc = "reset"
    /\ last_action = "upload"
    /\ Len(column_groups) = 2
    /\ uploaded_files_data # <<>>
    /\ ~merge_ready
    /\ merged_df = <<>>

\* The uploads of this execution that can be read.
Readable == SelectSeq(uploaded_files, LAMBDA f : ~Fails(f))

\* C6: after the ingest loop, a file whose read fails has no table in the
\* working set, is in no group, and has an error naming it; there is one
\* error per failing file; and the working set and grouping are those an
\* upload of the readable files alone produces.
C6_PerFileIndependence ==
    (pc = "merge" /\ uploaded_files # <<>>) =>
        /\ \A f \in Range(uploaded_files) :
              Fails(f) =>
                  /\ \A t \in WorkingTables : t.src # f
                  /\ \E i \in DOMAIN errors : errors[i].name = NameStr(f)
        /\ Len(errors) = Cardinality({f \in Range(uploaded_files) : Fails(f)})
        /\ Len(uploaded_files_data)
              = Cardinality({NameStr(f) : f \in Range(Readable)})
        /\ \A i \in DOMAIN uploaded_files_data :
              LET e == uploaded_files_data[i]
              IN  /\ e.val.src = LastNamed(uploaded_files, e.key)
                  /\ e.val.columns = Files[e.val.src].columns
                  /\ e.val.rows = Files[e.val.src].rows
        /\ uploaded_files_data = ingest_loop(Readable, <<>>, <<>>).data
        /\ uploaded_files_data # <<>> =>
              /\ column_groups = group_files_by_columns(uploaded_files_data)
              /\ \A i \in DOMAIN column_groups :
                    Range(column_groups[i].val) \subseteq WorkingNames

\* C6 witness: a failing file uploaded before two readable ones.
C6_Witness ==
    /\ pc = "merge"
    /\ Len(uploaded_files) = 3
    /\ Fails(uploaded_files[1])
    /\ Len(errors) = 1
    /\ Len(uploaded_files_data) = 2

\* C7: after an ingest, every uploaded file whose table is not in the working
\* set has an entry in the error list.
C7_NoSilentDiscard ==
    (pc = "merge" /\ uploaded_files # <<>>) =>
        \A f \in Range(uploaded_files) :
            (\A t \in WorkingTables : t.src # f) =>
                \E i \in DOMAIN errors : errors[i].name = NameStr(f)

\* The merge section has just run and has merged.
AfterMerge == pc = "reset" /\ merged_df # <<>>

RECURSIVE RowsBefore(_, _)
\* The number of rows of the first i tables of the sequence dfs.
RowsBefore(dfs, i) ==
    IF i = 0 THEN 0 ELSE RowsBefore(dfs, i - 1) + Len(dfs[i].rows)

\* The cell of row r under column c, in a table with the given columns.
Cell(columns, r, c) == r[CHOOSE k \in DOMAIN columns : columns[k] = c]

\* C8: the merged table has as many rows as the tables of the working set
\* together, its columns are the names of the selected signature, each once,
\* and its rows are those of the first table, then those of the second, and
\* so on, each row with the cells it had (equal rows are all kept).
C8_MergeConcatenatesInOrder ==
    AfterMerge =>
        LET T == DictValues(uploaded_files_data)
            m == merged_df[1]
        IN  /\ Len(m.rows) = RowsBefore(T, Len(T))
            /\ selected_group # <<>>
            /\ Range(m.columns) = Range(selected_group[1])
            /\ Len(m.columns) = Cardinality(Range(m.columns))
            /\ \A i \in DOMAIN T :
                  /\ Range(T[i].columns) = Range(m.columns)
                  /\ \A j \in DOMAIN T[i].rows :
                        \A c \in Range(T[i].columns) :
                            Cell(m.columns, m.rows[RowsBefore(T, i - 1) + j], c)
                                = Cell(T[i].columns, T[i].rows[j], c)

\* C8 witness: two tables with the columns in different orders and an equal
\* row were merged into four rows.
C8_Witness ==
    /\ AfterMerge
    /\ Len(uploaded_files_data) = 2
    /\ uploaded_files_data[1].val.columns # uploaded_files_data[2].val.columns
    /\ Len(merged_df[1].rows) = 4
    /\ merged_df[1].rows[1] = merged_df[1].rows[3]

\* GROUPED but not MERGE_READY, at the merge section.
GroupedNotReady ==
    uploaded_files_data # <<>> /\ Len(column_groups) > 1 /\ ~merge_ready

ReadableNames == {NameStr(f) : f \in Range(Readable)}

\* C11: after the ingest block of an execution started by a change of the
\* uploader, the working set holds exactly the readable files of the uploader,
\* no table in it was read from a file that is no longer uploaded, and the
\* stored groups cover exactly that working set.
C11_ReingestReplacesWholesale ==
    (pc = "merge" /\ last_action = "upload") =>
        /\ WorkingNames = ReadableNames
        /\ \A t \in WorkingTables : t.src \in Range(uploaded_files)
        /\ uploaded_files_data # <<>> =>
              UNION {Range(column_groups[i].val) : i \in DOMAIN column_groups}
                  = WorkingNames

\* C12: whenever the session rests between interactions, the groups of
\* column_groups are pairwise disjoint and the union of their file lists is
\* the set of the uploaded files that can be read.
C12_GroupingIsOfCurrentUploads ==
    pc = "idle" =>
        /\ \A i, j \in DOMAIN column_groups :
              i # j => Range(column_groups[i].val) \cap Range(column_groups[j].val) = {}
        /\ UNION {Range(column_groups[i].val) : i \in DOMAIN column_groups}
              = ReadableNames

\* C13: in an execution started by picking a group (no confirm), no step
\* changes the working set, the grouping or merge_ready, and the selection
\* block computes kept and excluded from the picked option and the unchanged
\* grouping alone: kept is the file list of the picked group and excluded the
\* rest of the working set, so picking the same group again gives the same.
C13_SelectHasNoSideEffect ==
    [][last_action' = "select" =>
          /\ uploaded_files_data' = uploaded_files_data
          /\ column_groups' = column_groups
          /\ merge_ready' = merge_ready
          /\ pc = "ingest" =>
                /\ kept_files' = column_groups[radio].val
                /\ Range(excluded_files') = WorkingNames \ Range(kept_files')
                /\ selected_group' = <<column_groups[radio].key>>]_vars

\* C13 witness: the third of three groups was picked and the execution ended
\* with all three files still in the working set.
C13_Witness ==
    /\ pc = "idle"
    /\ last_action = "select"
    /\ radio = 3
    /\ Len(column_groups) = 3
    /\ Len(uploaded_files_data) = 3
    /\ ~merge_ready

\* The selection block (lines 154-177) has run in this execution.
SelectionShown ==
    /\ radio_options # <<>>
    /\ \/ pc \in {"merge", "reset", "idle"}
       \/ pc = "rerun" /\ clicked = "confirm"

RECURSIVE FilesOfGroups(_, _)
\* The file lists of the groups numbered in idxs, one after the other.
FilesOfGroups(groups, idxs) ==
    IF idxs = <<>> THEN <<>>
    ELSE groups[Head(idxs)].val \o FilesOfGroups(groups, Tail(idxs))

\* C14: when a group is selected, its signature is a key of the grouping, kept
\* is that group's file list, excluded is the file lists of all other groups
\* in the order of the grouping, kept and excluded have no file in common, and
\* together they are the names of all files that were read.
C14_KeptAndExcludedAreComplements ==
    SelectionShown =>
        LET sel == selected_group[1]
            idx == CHOOSE i \in DOMAIN column_groups : column_groups[i].key = sel
            others == SelectSeq([i \in DOMAIN column_groups |-> i],
                                LAMBDA i : i # idx)
        IN  /\ selected_group # <<>>
            /\ \E i \in DOMAIN column_groups : column_groups[i].key = sel
            /\ kept_files = column_groups[idx].val
            /\ excluded_files = FilesOfGroups(column_groups, others)
            /\ Range(kept_files) \cap Range(excluded_files) = {}
            /\ Range(kept_files) \cup Range(excluded_files) = ReadableNames
            /\ Len(kept_files) + Len(excluded_files) = Cardinality(ReadableNames)

\* C14 witness: the second of three groups is selected, with one file kept
\* and two excluded.
C14_Witness ==
    /\ SelectionShown
    /\ pc = "idle"
    /\ Len(column_groups) = 3
    /\ selected_group = <<column_groups[2].key>>
    /\ Len(kept_files) = 1
    /\ Len(excluded_files) = 2

\* C16: whenever the merge section has merged, all tables of the working set
\* have the same column-name set, and it is that of the selected signature.
C16_MergeOnlyOverOneSignature ==
    AfterMerge =>
        /\ \A t1, t2 \in WorkingTables : Range(t1.columns) = Range(t2.columns)
        /\ selected_group # <<>>
        /\ \A t \in WorkingTables : Range(t.columns) = Range(selected_group[1])

\* C16 witness: after a reset and the execution it starts, the merge section
\* merged two tables whose columns stand in different orders.
C16_Witness ==
    /\ AfterMerge
    /\ last_action = "reset"
    /\ reran
    /\ Len(uploaded_files_data) = 2
    /\ uploaded_files_data[1].val.columns # uploaded_files_data[2].val.columns

\* A second state of C16's case: the ingest block was skipped (empty uploader)
\* and the merge section merged the working set carried over from before.
C16_CarriedOver ==
    /\ AfterMerge
    /\ uploaded_files = <<>>
    /\ uploaded_files_data # <<>>

====
